---- MODULE Spec2Model ----
(***************************************************************************)
(* A model of propositions.py: the truth-table generator for propositional *)
(* formulas.  Strings are sequences of one-character strings, so that the  *)
(* regular expressions, str.replace and the decimal token keys of the      *)
(* program are modelled by what they do to the characters.                 *)
(***************************************************************************)
EXTENDS Integers, Sequences, FiniteSets, TLC

VARIABLES line, pc, diag, initial_string, tokens, simple_props, globals,
          heap, table, result

vars == <<line, pc, diag, initial_string, tokens, simple_props, globals,
          heap, table, result>>

(***************************************************************************)
(* Characters                                                              *)
(***************************************************************************)
Lower == {"a", "b", "c", "d", "e", "f", "g", "h", "i", "j", "k", "l", "m",
          "n", "o", "p", "q", "r", "s", "t", "u", "v", "w", "x", "y", "z"}

Upper == {"A", "B", "C", "D", "E", "F", "G", "H", "I", "J", "K", "L", "M",
          "N", "O", "P", "Q", "R", "S", "T", "U", "V", "W", "X", "Y", "Z"}

Alphabetical == <<"a", "b", "c", "d", "e", "f", "g", "h", "i", "j", "k", "l",
                  "m", "n", "o", "p", "q", "r", "s", "t", "u", "v", "w", "x",
                  "y", "z">>

UpperAlphabetical == <<"A", "B", "C", "D", "E", "F", "G", "H", "I", "J", "K",
                       "L", "M", "N", "O", "P", "Q", "R", "S", "T", "U", "V",
                       "W", "X", "Y", "Z">>

Digits == <<"0", "1", "2", "3", "4", "5", "6", "7", "8", "9">>

Digit == {Digits[k] : k \in 1..10}

Whitespace == {" "}

BinaryOps == {"&", "|", "+", "<", ">"}

\* the character class [a-z()~&|+<>] of rule 2
AllowedChars == Lower \cup {"(", ")", "~"} \cup BinaryOps

\* the position of a letter in the alphabet: sorted() orders letters by it
Ord(c) == CHOOSE k \in 1..26 : Alphabetical[k] = c

\* int() of one decimal digit character
DigitValue(c) == (CHOOSE k \in 1..10 : Digits[k] = c) - 1

\* str.lower() on one character
LowerChar(c) ==
    IF c \in Upper
    THEN Alphabetical[CHOOSE k \in 1..26 : UpperAlphabetical[k] = c]
    ELSE c

(***************************************************************************)
(* String helpers                                                          *)
(***************************************************************************)
\* f"{counter}": the decimal digits of a natural number
RECURSIVE Decimal(_)
Decimal(n) ==
    IF n < 10 THEN <<Digits[n + 1]>>
    ELSE Decimal(n \div 10) \o <<Digits[(n % 10) + 1]>>

\* whether old occurs in s at position p
OccursAt(s, old, p) ==
    /\ p + Len(old) - 1 <= Len(s)
    /\ \A k \in 1..Len(old) : s[p + k - 1] = old[k]

\* str.replace(old, new): every non-overlapping occurrence, left to right
RECURSIVE ReplaceFrom(_, _, _, _)
ReplaceFrom(s, old, new, p) ==
    IF p > Len(s) THEN <<>>
    ELSE IF OccursAt(s, old, p)
         THEN new \o ReplaceFrom(s, old, new, p + Len(old))
         ELSE <<s[p]>> \o ReplaceFrom(s, old, new, p + 1)

Replace(s, old, new) == ReplaceFrom(s, old, new, 1)

\* re.sub(r"\s", "", input_string.lower())
RECURSIVE Normalize(_)
Normalize(s) ==
    IF s = <<>> THEN <<>>
    ELSE IF Head(s) \in Whitespace THEN Normalize(Tail(s))
         ELSE <<LowerChar(Head(s))>> \o Normalize(Tail(s))

(***************************************************************************)
(* proposition_matcher: the eight character-level rules.  RuleAt(k, s, p)  *)
(* is alternative k of the verbose regular expression, tried at position p.*)
(***************************************************************************)
Empty == "Input cannot be empty."

Unmatched == "Input cannot contain unmatched parentheses!"

\* message[k]: the diagnostic of the branch that tests matcher.group(k)
Messages == <<"Input cannot contain digits",
              "Input cannot contain unallowed characters",
              "Every simple proposition can only be represented by a single letter!",
              "A group can only begin with: ( ~ or letter!",
              "A group can only end with: ) or letter!",
              "~ operator cannot appear between two propositions or at the end!",
              "Binary operators can only have 2 operands!",
              "Parentheses cannot be adjacent to letters: a( or )a!">>

Rules == 1..Len(Messages)

RuleAt(k, s, p) ==
    LET n == Len(s)
        c == s[p]
        two == p + 1 <= n
        d == s[p + 1]
    IN  CASE k = 1 -> c \in Digit
          [] k = 2 -> c \notin AllowedChars
          [] k = 3 -> two /\ c \in Lower /\ d \in Lower
          [] k = 4 -> two /\ c = "(" /\ d \notin Lower \cup {"(", "~"}
          [] k = 5 -> two /\ c \notin Lower \cup {")"} /\ d = ")"
          [] k = 6 -> two /\ c \in Lower \cup {")"} /\ d = "~"
          [] k = 7 -> \/ two /\ c \notin Lower \cup {")"} /\ d \in BinaryOps
                      \/ two /\ c \in BinaryOps /\ d \notin Lower \cup {"(", "~"}
                      \/ p = 1 /\ c \in BinaryOps
                      \/ p = n /\ c \in BinaryOps \cup {"~"}
          [] k = 8 -> \/ two /\ c \in Lower /\ d = "("
                      \/ two /\ c = ")" /\ d \in Lower

\* the first alternative that matches at p, 0 when none does
RECURSIVE FirstAlternative(_, _, _)
FirstAlternative(s, p, k) ==
    IF k > Len(Messages) THEN 0
    ELSE IF RuleAt(k, s, p) THEN k
         ELSE FirstAlternative(s, p, k + 1)

\* regex.search: the leftmost position at which some alternative matches
RECURSIVE SearchFrom(_, _)
SearchFrom(s, p) ==
    IF p > Len(s) THEN [group |-> 0, start |-> 0]
    ELSE IF FirstAlternative(s, p, 1) # 0
         THEN [group |-> FirstAlternative(s, p, 1), start |-> p]
         ELSE SearchFrom(s, p + 1)

\* a search that would try alternative 1 over the whole string, then 2, ...
PrioritySearch(s) ==
    LET hit == {k \in Rules : \E p \in 1..Len(s) : RuleAt(k, s, p)}
        k == CHOOSE m \in hit : \A j \in hit : m <= j
    IN  IF hit = {} THEN [group |-> 0, start |-> 0]
        ELSE [group |-> k,
              start |-> CHOOSE p \in 1..Len(s) :
                          /\ RuleAt(k, s, p)
                          /\ \A q \in 1..(p - 1) : ~RuleAt(k, s, q)]

Search(s) == SearchFrom(s, 1)

(***************************************************************************)
(* extract_tokens                                                          *)
(***************************************************************************)
\* \([^()]*?\) at q: the index of the closing parenthesis, 0 when no match
RECURSIVE GroupClose(_, _)
GroupClose(s, r) ==
    IF r > Len(s) THEN 0
    ELSE IF s[r] = ")" THEN r
         ELSE IF s[r] = "(" THEN 0
              ELSE GroupClose(s, r + 1)

\* ~?\([^()]*?\) at p: the index of the last character matched, 0 when none
GroupMatch(s, p) ==
    IF s[p] = "~"
    THEN IF p + 1 <= Len(s) /\ s[p + 1] = "(" THEN GroupClose(s, p + 2) ELSE 0
    ELSE IF s[p] = "(" THEN GroupClose(s, p + 1) ELSE 0

\* re.findall: the non-overlapping matches, left to right
RECURSIVE FindGroupsFrom(_, _)
FindGroupsFrom(s, p) ==
    IF p > Len(s) THEN <<>>
    ELSE IF GroupMatch(s, p) # 0
         THEN <<SubSeq(s, p, GroupMatch(s, p))>>
                  \o FindGroupsFrom(s, GroupMatch(s, p) + 1)
         ELSE FindGroupsFrom(s, p + 1)

FindGroups(s) == FindGroupsFrom(s, 1)

\* a for loop that increments counter before it writes the key
RECURSIVE ReplaceGroupsKeyAhead(_, _, _, _, _)
ReplaceGroupsKeyAhead(input_string, dict, counter, groups, i) ==
    IF i > Len(groups)
    THEN [input_string |-> input_string, tokens |-> dict, counter |-> counter]
    ELSE ReplaceGroupsKeyAhead(
             Replace(input_string, groups[i], Decimal(counter + 1)),
             (counter :> groups[i]) @@ dict,
             counter + 1, groups, i + 1)

\* the for loop over one findall result
RECURSIVE ReplaceGroups(_, _, _, _, _)
ReplaceGroups(input_string, dict, counter, groups, i) ==
    IF i > Len(groups)
    THEN [input_string |-> input_string, tokens |-> dict, counter |-> counter]
    ELSE ReplaceGroups(Replace(input_string, groups[i], Decimal(counter)),
                       (counter :> groups[i]) @@ dict,
                       counter + 1, groups, i + 1)

\* the while loop: one findall per pass, until no group is left
RECURSIVE TokenLoop(_, _, _)
TokenLoop(input_string, dict, counter) ==
    LET groups == FindGroups(input_string)
        done == ReplaceGroups(input_string, dict, counter, groups, 1)
    IN  IF groups = <<>>
        THEN [input_string |-> input_string, tokens |-> dict]
        ELSE TokenLoop(done.input_string, done.tokens, done.counter)

\* the returned list [input_string, tokens], as a record
extract_tokens(input_string) == TokenLoop(input_string, <<>>, 0)

(***************************************************************************)
(* decompress_tokens                                                       *)
(***************************************************************************)
KeyError == <<"KeyError">>

\* re.search(r"(\d+?)"): the position of the first digit, 0 when none
RECURSIVE FirstDigit(_, _)
FirstDigit(s, p) ==
    IF p > Len(s) THEN 0
    ELSE IF s[p] \in Digit THEN p
         ELSE FirstDigit(s, p + 1)

\* the lazy \d+? matches one digit; tokens[1][int(i)] raises KeyError on a
\* key the table does not hold
RECURSIVE decompress_tokens(_, _)
decompress_tokens(input_string, toks) ==
    LET p == FirstDigit(input_string, 1)
        i == input_string[p]
    IN  IF p = 0 THEN input_string
        ELSE IF DigitValue(i) \notin DOMAIN toks.tokens THEN KeyError
             ELSE decompress_tokens(
                      Replace(input_string, <<i>>, toks.tokens[DigitValue(i)]),
                      toks)

(***************************************************************************)
(* class Proposition.  An object lives in the heap under its identity; the *)
(* list simple_props and the module globals hold identities, so that an    *)
(* assignment through one is seen through the other.                       *)
(***************************************************************************)
\* Proposition(name = e): value defaults to bool(), that is False
NewProposition(e) == [name |-> e, value |-> FALSE]

Prop_invert(v) == IF v = FALSE THEN TRUE ELSE FALSE

Prop_and(v, w) == IF v /\ w THEN TRUE ELSE FALSE

Prop_or(v, w) == IF v \/ w THEN TRUE ELSE FALSE

Prop_add(v, w) == IF v = w THEN FALSE ELSE TRUE

Prop_gt(v, w) == IF (v = TRUE) /\ (w = FALSE) THEN FALSE ELSE TRUE

Prop_lt(v, w) == IF v = w THEN TRUE ELSE FALSE

(***************************************************************************)
(* extract_simple_props                                                    *)
(***************************************************************************)
\* sorted(list(set(re.findall(r"([a-z])", input_string))))
RECURSIVE SortedFrom(_, _)
SortedFrom(set, k) ==
    IF k > Len(Alphabetical) THEN <<>>
    ELSE IF Alphabetical[k] \in set
         THEN <<Alphabetical[k]>> \o SortedFrom(set, k + 1)
         ELSE SortedFrom(set, k + 1)

SortedLetters(input_string) ==
    SortedFrom({input_string[k] : k \in 1..Len(input_string)} \cap Lower, 1)

\* the identity of a new object: one no live object has
FreshId(h) ==
    CHOOSE n \in 1..(Cardinality(DOMAIN h) + 1) :
        /\ n \notin DOMAIN h
        /\ \A m \in 1..(n - 1) : m \in DOMAIN h

\* objects that neither the list nor a global refers to are freed
Live(props, g, h) ==
    LET ids == {props[k] : k \in 1..Len(props)} \cup {g[x] : x \in DOMAIN g}
    IN  [n \in ids |-> h[n]]

\* the for loop: a letter without an entry in simple_props gets a new
\* Proposition, bound to the global of its name and appended to the list
RECURSIVE AddProps(_, _, _, _, _)
AddProps(letters, k, props, g, h) ==
    LET e == letters[k]
        id == FreshId(h)
        props1 == Append(props, id)
        g1 == (e :> id) @@ g
        h1 == (id :> NewProposition(e)) @@ h
    IN  IF k > Len(letters)
        THEN [simple_props |-> props, globals |-> g, heap |-> Live(props, g, h)]
        ELSE IF e \notin {h[props[j]].name : j \in 1..Len(props)}
             THEN AddProps(letters, k + 1, props1, g1, Live(props1, g1, h1))
             ELSE AddProps(letters, k + 1, props, g, h)

\* an extract_simple_props without its "simple_props = []"
extract_simple_props_appending(input_string, props, g, h) ==
    AddProps(SortedLetters(input_string), 1, props, g, h)

extract_simple_props(input_string, props, g, h) ==
    AddProps(SortedLetters(input_string), 1, <<>>, g, Live(<<>>, g, h))

(***************************************************************************)
(* eval(f"({code}).value") inside get_table.  A value is a Proposition     *)
(* (isprop, with its truth value) or anything else: an int, a bool, a      *)
(* raised exception.  Every operator of class Proposition reads            *)
(* other.value, int defines no reflected operator that accepts a           *)
(* Proposition, and an operator on two ints gives an int, so an expression *)
(* with an operand that is no Proposition never gives a Proposition: its   *)
(* ".value" raises.  NotProp stands for all these outcomes.                *)
(***************************************************************************)
PyProp(b) == [isprop |-> TRUE, value |-> b]

NotProp == [isprop |-> FALSE, value |-> FALSE]

\* the names get_table binds locally, which eval sees before the globals
GetTableLocals == {"table_header", "table", "truth_combinations",
                   "row_index", "i", "code"}

\* the object a name denotes inside get_table: a local of get_table hides
\* the global of that name.  0: no Proposition (a local int, or NameError)
ResolveName(e, g) ==
    IF e \in GetTableLocals THEN 0
    ELSE IF e \in DOMAIN g THEN g[e]
         ELSE 0

LookupName(e, g, h) ==
    IF ResolveName(e, g) = 0 THEN NotProp
    ELSE PyProp(h[ResolveName(e, g)].value)

PyUnaryOp(x) == IF x.isprop THEN PyProp(Prop_invert(x.value)) ELSE NotProp

PyBinaryOp(op, x, y) ==
    IF ~(x.isprop /\ y.isprop) THEN NotProp
    ELSE CASE op = "&" -> PyProp(Prop_and(x.value, y.value))
           [] op = "|" -> PyProp(Prop_or(x.value, y.value))
           [] op = "+" -> PyProp(Prop_add(x.value, y.value))
           [] op = ">" -> PyProp(Prop_gt(x.value, y.value))
           [] op = "<" -> PyProp(Prop_lt(x.value, y.value))

\* "x and y": a Proposition defines no __bool__, so it is true and y results
PyAndThen(x, y) == IF x.isprop THEN y ELSE NotProp

\* Python's binary operators below the comparisons, loosest first
PyLevels == <<"|", "&", "+">>

PyComparisonOps == {"<", ">"}

SyntaxError(s) == [v |-> NotProp, p |-> Len(s) + 1]

RECURSIVE PyComparison(_, _, _, _)
RECURSIVE PyComparisonTail(_, _, _, _, _, _)
RECURSIVE PyLevel(_, _, _, _, _)
RECURSIVE PyLevelTail(_, _, _, _, _)
RECURSIVE PyUnary(_, _, _, _)
RECURSIVE PyPrimary(_, _, _, _)
RECURSIVE PyTrailers(_, _, _, _)

\* a op b op c is (a op b) and (b op c)
PyComparison(s, p, g, h) ==
    LET l == PyLevel(s, p, g, h, 1)
    IN  PyComparisonTail(s, l, l.v, FALSE, g, h)

\* last: the rightmost operand so far; acc: the conjunction so far, once
\* chained says there is one
PyComparisonTail(s, acc, last, chained, g, h) ==
    IF acc.p <= Len(s) /\ s[acc.p] \in PyComparisonOps
    THEN LET r == PyLevel(s, acc.p + 1, g, h, 1)
             c == PyBinaryOp(s[acc.p], last, r.v)
         IN  PyComparisonTail(s,
                 [v |-> IF chained THEN PyAndThen(acc.v, c) ELSE c, p |-> r.p],
                 r.v, TRUE, g, h)
    ELSE acc

PyLevel(s, p, g, h, l) ==
    IF l > Len(PyLevels) THEN PyUnary(s, p, g, h)
    ELSE PyLevelTail(s, PyLevel(s, p, g, h, l + 1), g, h, l)

PyLevelTail(s, acc, g, h, l) ==
    IF acc.p <= Len(s) /\ s[acc.p] = PyLevels[l]
    THEN LET r == PyLevel(s, acc.p + 1, g, h, l + 1)
         IN  PyLevelTail(s, [v |-> PyBinaryOp(PyLevels[l], acc.v, r.v), p |-> r.p],
                         g, h, l)
    ELSE acc

PyUnary(s, p, g, h) ==
    IF p <= Len(s) /\ s[p] = "~"
    THEN LET r == PyUnary(s, p + 1, g, h)
         IN  [v |-> PyUnaryOp(r.v), p |-> r.p]
    ELSE PyPrimary(s, p, g, h)

\* a name or a parenthesized expression, then its trailers
PyPrimary(s, p, g, h) ==
    IF p > Len(s) THEN SyntaxError(s)
    ELSE IF s[p] \in Lower
         THEN PyTrailers(s, [v |-> LookupName(s[p], g, h), p |-> p + 1], g, h)
         ELSE IF s[p] = "("
              THEN LET r == PyComparison(s, p + 1, g, h)
                   IN  IF r.p <= Len(s) /\ s[r.p] = ")"
                       THEN PyTrailers(s, [v |-> r.v, p |-> r.p + 1], g, h)
                       ELSE SyntaxError(s)
              ELSE SyntaxError(s)

\* x(y) is a call: neither a Proposition nor an int is callable
PyTrailers(s, acc, g, h) ==
    IF acc.p <= Len(s) /\ s[acc.p] = "("
    THEN LET r == PyComparison(s, acc.p + 1, g, h)
         IN  IF r.p <= Len(s) /\ s[r.p] = ")"
             THEN PyTrailers(s, [v |-> NotProp, p |-> r.p + 1], g, h)
             ELSE SyntaxError(s)
    ELSE acc

\* eval(f"({code}).value"): the truth value, or a raise
PyEval(code, g, h) ==
    LET r == PyComparison(code, 1, g, h)
    IN  IF r.p = Len(code) + 1 THEN r.v ELSE NotProp

(***************************************************************************)
(* get_table, display_table, get_proposition_type                          *)
(***************************************************************************)
\* a table cell: True or False; display_table adds a row of ""
Cell(b) == IF b THEN "True" ELSE "False"

\* itertools.product([True, False], repeat = n), in its order
RECURSIVE Product(_)
Product(n) ==
    IF n = 0 THEN <<<<>>>>
    ELSE LET rest == Product(n - 1)
             with(b) == [k \in 1..Len(rest) |-> <<b>> \o rest[k]]
         IN  with(TRUE) \o with(FALSE)

\* [prop.name ...] + [decompress_tokens(...) for token in tokens[1]]
\*                 + [initial_string]
TableHeader(props, toks, formula, h) ==
    [k \in 1..Len(props) |-> <<h[props[k]].name>>]
        \o [k \in 1..Cardinality(DOMAIN toks.tokens) |->
                decompress_tokens(toks.tokens[k - 1], toks)]
        \o <<formula>>

\* simple_props[i].value = truth_combinations[row_index][i], for every i
AssignRow(props, combination, h) ==
    [n \in DOMAIN h |->
        IF \E k \in 1..Len(props) : props[k] = n
        THEN [h[n] EXCEPT !.value =
                 combination[CHOOSE k \in 1..Len(props) : props[k] = n]]
        ELSE h[n]]

\* the loop over truth_combinations; an exception of eval ends get_table
RECURSIVE TableRows(_, _, _, _, _, _, _)
TableRows(header, combinations, row_index, rows, props, g, h) ==
    LET n == Len(props)
        h1 == AssignRow(props, combinations[row_index], h)
        values == [k \in 1..(Len(header) - n) |-> PyEval(header[n + k], g, h1)]
        row == [k \in 1..n |-> Cell(combinations[row_index][k])]
                   \o [k \in 1..Len(values) |-> Cell(values[k].value)]
    IN  IF row_index > Len(combinations)
        THEN [raised |-> FALSE, rows |-> rows, heap |-> h]
        ELSE IF \E k \in 1..Len(values) : ~values[k].isprop
             THEN [raised |-> TRUE, rows |-> rows, heap |-> h1]
             ELSE TableRows(header, combinations, row_index + 1,
                            Append(rows, row), props, g, h1)

\* the table as header and rows; raised when an eval raised
get_table(props, toks, formula, g, h) ==
    LET header == TableHeader(props, toks, formula, h)
        body == TableRows(header, Product(Len(props)), 1, <<>>, props, g, h)
    IN  [raised |-> body.raised,
         table |-> [header |-> header, rows |-> body.rows],
         heap |-> body.heap]

\* table.insert(1, ["" for i in table[0]]); the rendering is not modelled
display_table(t) ==
    [t EXCEPT !.rows = <<[k \in 1..Len(t.header) |-> ""]>> \o t.rows]

Tautology == "valid (tautology, also satisfiable)"

Contradiction == "contradiction (unsatisfiable)"

Satisfiable == "satisfiable"

Contingent == "contingent (also satisfiable)"

\* a column read at index 0 instead of j
FirstColumn(t) ==
    [k \in 1..Len(t.rows) |-> t.rows[k][1]]

\* table[1..][j] with j the last index of table[1]
LastColumn(t) ==
    [k \in 1..Len(t.rows) |-> t.rows[k][Len(t.rows[1])]]

get_proposition_type(t) ==
    LET last_column == {LastColumn(t)[k] : k \in 1..Len(t.rows)}
    IN  IF Cell(FALSE) \notin last_column THEN Tautology
        ELSE IF Cell(TRUE) \notin last_column THEN Contradiction
             ELSE IF Cell(TRUE) \in last_column
                  THEN IF Cell(FALSE) \in last_column THEN Contingent
                       ELSE Satisfiable
                  ELSE ""

(***************************************************************************)
(* proposition_matcher: what it returns (accepted, tokens), what it prints *)
(* (message) and the globals it leaves.                                    *)
(***************************************************************************)
\* a test for "(" alone
HasOpenParenthesis(s) == \E k \in 1..Len(s) : s[k] = "("

\* re.search(r"[()]", tokens[0])
HasParenthesis(s) == \E k \in 1..Len(s) : s[k] \in {"(", ")"}

proposition_matcher(raw, formula, props, g, h) ==
    LET input_string == Normalize(raw)
        matcher == Search(input_string)
        toks == extract_tokens(input_string)
        atoms == extract_simple_props(input_string, props, g, h)
        rejected(message, text) ==
            [accepted |-> FALSE, message |-> message, initial_string |-> text,
             tokens |-> toks, simple_props |-> props, globals |-> g, heap |-> h]
    IN  IF input_string = <<>> THEN rejected(Empty, formula)
        ELSE IF matcher.group # 0
             THEN rejected(Messages[matcher.group], input_string)
             ELSE IF HasParenthesis(toks.input_string)
                  THEN rejected(Unmatched, input_string)
                  ELSE [accepted |-> TRUE, message |-> "",
                        initial_string |-> input_string, tokens |-> toks,
                        simple_props |-> atoms.simple_props,
                        globals |-> atoms.globals, heap |-> atoms.heap]

(***************************************************************************)
(* The program: the main loop, one action per step.                        *)
(*   prompt     at input() of the main loop                                *)
(*   retry      at input() of validate_input, after a rejected line        *)
(*   read       a line was read, proposition_matcher is next               *)
(*   validated  validate_input returned, get_table is next                 *)
(*   tabled     get_table returned, display and classification are next    *)
(*   crashed    an exception left the main loop                            *)
(***************************************************************************)
NoTokens == [input_string |-> <<>>, tokens |-> <<>>]

NoTable == [header |-> <<>>, rows |-> <<>>]

Fresh ==
    /\ diag = ""
    /\ initial_string = <<>>
    /\ tokens = NoTokens
    /\ simple_props = <<>>
    /\ globals = <<>>
    /\ heap = <<>>
    /\ table = NoTable
    /\ result = ""

\* what one call of proposition_matcher(s) leaves; on success validate_input
\* returns and the main loop binds tokens.  The line itself is consumed.
Matched(s) ==
    \E m \in {proposition_matcher(s, initial_string, simple_props, globals, heap)} :
        /\ pc' = IF m.accepted THEN "validated" ELSE "retry"
        /\ diag' = m.message
        /\ initial_string' = m.initial_string
        /\ tokens' = IF m.accepted THEN m.tokens ELSE tokens
        /\ simple_props' = m.simple_props
        /\ globals' = m.globals
        /\ heap' = m.heap
        /\ line' = <<>>
        /\ UNCHANGED <<table, result>>

\* input() returns one of lines and proposition_matcher is applied to it
Submit(lines) ==
    /\ pc \in {"prompt", "retry"}
    /\ \E s \in lines : Matched(s)

\* proposition_matcher applied to a line already read
Validate ==
    /\ pc = "read"
    /\ Matched(line)

\* table = get_table()
GetTable ==
    /\ pc = "validated"
    /\ \E t \in {get_table(simple_props, tokens, initial_string, globals, heap)} :
           /\ pc' = IF t.raised THEN "crashed" ELSE "tabled"
           /\ table' = IF t.raised THEN table ELSE t.table
           /\ heap' = t.heap
    /\ UNCHANGED <<line, diag, initial_string, tokens, simple_props, globals,
                   result>>

\* print(display_table(table)); print(get_proposition_type(table))
Display ==
    /\ pc = "tabled"
    /\ table' = display_table(table)
    /\ result' = get_proposition_type(display_table(table))
    /\ pc' = "prompt"
    /\ UNCHANGED <<line, diag, initial_string, tokens, simple_props, globals,
                   heap>>

(***************************************************************************)
(* The lines a user types.                                                 *)
(***************************************************************************)
StringsUpTo(alphabet, n) == UNION {[1..k -> alphabet] : k \in 0..n}

Count(s, c) == Cardinality({k \in 1..Len(s) : s[k] = c})

MaxLine == 3

LoopAlphabet == {"a", "b", "i", "(", ")", "~", "+", ">"}

\* no alternative of the eight rules matches anywhere in s
PassesRules(s) == \A p \in 1..Len(s) : \A k \in Rules : ~RuleAt(k, s, p)

\* every ")" closes an earlier "(", and every "(" is closed
Balanced(s) ==
    /\ \A k \in 1..Len(s) :
           Cardinality({j \in 1..k : s[j] = ")"})
               <= Cardinality({j \in 1..k : s[j] = "("})
    /\ Count(s, "(") = Count(s, ")")

\* the formulas of at most n characters over an alphabet
Formulas(alphabet, n) ==
    {s \in StringsUpTo(alphabet, n) : s # <<>> /\ PassesRules(s) /\ Balanced(s)}

\* lines that are rejected: an empty one, one that breaks a rule, one with
\* an unmatched parenthesis
RejectedLines == {<<>>, <<"a", "~">>, <<"(", "a">>}

\* the lines of the main loop
Lines == {s : s \in Formulas(LoopAlphabet, MaxLine) \cup RejectedLines}

(***************************************************************************)
(* Spec: the main loop, line after line.                                   *)
(***************************************************************************)
Init ==
    /\ pc = "prompt"
    /\ line = <<>>
    /\ Fresh

Next ==
    \/ Submit(Lines)
    \/ GetTable
    \/ Display

Spec == Init /\ [][Next]_vars

(***************************************************************************)
(* SpecFirst: the first line of a fresh run, from a larger set of lines.   *)
(***************************************************************************)
MaxFirstLine == 6

FirstAlphabet == {"a", "i", "(", ")", "~", ">"}

InitFirst ==
    /\ pc = "read"
    /\ line \in StringsUpTo(FirstAlphabet, MaxFirstLine)
    /\ Fresh

NextFirst ==
    \/ Validate
    \/ GetTable
    \/ Display

SpecFirst == InitFirst /\ [][NextFirst]_vars

(***************************************************************************)
(* SpecMatcher: proposition_matcher alone, on every line over an alphabet  *)
(* with a digit, an unallowed character and a blank.                       *)
(***************************************************************************)
MaxMatcherLine == 5

MatcherAlphabet == {"a", "1", "#", " ", "~", "&", "(", ")"}

InitMatcher ==
    /\ pc = "read"
    /\ line \in StringsUpTo(MatcherAlphabet, MaxMatcherLine)
    /\ Fresh

NextMatcher == Validate

SpecMatcher == InitMatcher /\ [][NextMatcher]_vars

(***************************************************************************)
(* SpecTokens: long formulas, composed group by group: a small formula is  *)
(* wrapped in parentheses again and again.                                 *)
(***************************************************************************)
MaxGroups == 12

MaxWide == 2

TokenAtoms == {"a", "b"}

Groups(s) == Count(s, "(")

\* (line)
Wrap ==
    /\ pc = "compose"
    /\ Groups(line) < MaxGroups
    /\ line' = <<"(">> \o line \o <<")">>
    /\ UNCHANGED <<pc, diag, initial_string, tokens, simple_props, globals,
                   heap, table, result>>

\* ~line, in front of a small formula that has no negation yet
Negate ==
    /\ pc = "compose"
    /\ Groups(line) <= MaxWide
    /\ line[1] # "~"
    /\ line' = <<"~">> \o line
    /\ UNCHANGED <<pc, diag, initial_string, tokens, simple_props, globals,
                   heap, table, result>>

\* line(x) and line&(x): one more group to the right
Adjoin ==
    /\ pc = "compose"
    /\ Groups(line) < MaxWide
    /\ \E x \in TokenAtoms : \E op \in {<<>>, <<"&">>} :
           line' = line \o op \o <<"(", x, ")">>
    /\ UNCHANGED <<pc, diag, initial_string, tokens, simple_props, globals,
                   heap, table, result>>

\* the line is entered
Enter ==
    /\ pc = "compose"
    /\ pc' = "read"
    /\ UNCHANGED <<line, diag, initial_string, tokens, simple_props, globals,
                   heap, table, result>>

InitTokens ==
    /\ pc = "compose"
    /\ line \in {<<x>> : x \in TokenAtoms}
    /\ Fresh

NextTokens ==
    \/ Wrap
    \/ Negate
    \/ Adjoin
    \/ Enter
    \/ Validate

SpecTokens == InitTokens /\ [][NextTokens]_vars

(***************************************************************************)
(* Properties of the validator (SpecMatcher).                              *)
(***************************************************************************)
\* a line went through the regular expression search and was turned down or
\* taken by it
Searched == pc \in {"validated", "retry"} /\ initial_string # <<>>

\* the rules with a match somewhere in s
ViolatedRules(s) == {k \in Rules : \E p \in 1..Len(s) : RuleAt(k, s, p)}

\* the lowest-numbered rule with a match somewhere in s
LowestRule(s) ==
    CHOOSE k \in ViolatedRules(s) : \A j \in ViolatedRules(s) : k <= j

\* C4 as stated: when a line violates several rules, the diagnostic shown is
\* that of the lowest-numbered rule violated anywhere in the line.
C4_LowestRuleAnywhere ==
    (Searched /\ ~PassesRules(initial_string))
        => diag = Messages[LowestRule(initial_string)]

\* C4 amended: the diagnostic shown is that of the lowest-numbered rule
\* among the rules that match at the leftmost position of the line where any
\* rule matches; a lower-numbered rule violated further right is not shown.
C4_LeftmostThenLowest ==
    (Searched /\ ~PassesRules(initial_string))
        => /\ pc = "retry"
           /\ \E p \in 1..Len(initial_string) : \E k \in Rules :
                  /\ \A q \in 1..(p - 1) : \A j \in Rules :
                         ~RuleAt(j, initial_string, q)
                  /\ RuleAt(k, initial_string, p)
                  /\ \A j \in 1..(k - 1) : ~RuleAt(j, initial_string, p)
                  /\ diag = Messages[k]

\* a line with a digit is turned down with the diagnostic of rule 6, the
\* misplaced negation that stands left of the digit
C4_Witness ==
    /\ pc = "retry"
    /\ diag = Messages[6]
    /\ 1 \in ViolatedRules(initial_string)

\* C5: a line that passes the eight rules is accepted exactly when its
\* parentheses are balanced; otherwise it is turned down with the unmatched
\* parenthesis diagnostic, and a parenthesis is left in the flat string
\* exactly in that case.
C5_AcceptedIffBalanced ==
    (Searched /\ PassesRules(initial_string))
        => /\ pc = "validated" <=> Balanced(initial_string)
           /\ pc = "retry" => diag = Unmatched
           /\ HasParenthesis(extract_tokens(initial_string).input_string)
                  <=> ~Balanced(initial_string)

\* a line with as many "(" as ")" is turned down for an unmatched
\* parenthesis
C5_Witness ==
    /\ pc = "retry"
    /\ diag = Unmatched
    /\ Count(initial_string, "(") = Count(initial_string, ")")
    /\ Count(initial_string, "(") > 0

(***************************************************************************)
(* Properties of the main loop (Spec).                                     *)
(***************************************************************************)
\* the values in the final column of the rows first..last of t
FinalColumn(t, first) ==
    {t.rows[r][Len(t.header)] : r \in first..Len(t.rows)}

\* the label goes with the set of values of a final column
Classified(label, final) ==
    /\ label \in {Tautology, Contradiction, Contingent}
    /\ label = Tautology <=> final = {Cell(TRUE)}
    /\ label = Contradiction <=> final = {Cell(FALSE)}
    /\ label = Contingent <=> final = {Cell(TRUE), Cell(FALSE)}
    /\ label # Satisfiable

\* C6: the label get_proposition_type returns for a table of get_table is
\* the tautology label exactly when the final column of every row is true,
\* the contradiction label exactly when it is false in every row, the
\* contingent label exactly when both values occur; it is never the bare
\* "satisfiable".
C6_ClassificationConsistent ==
    /\ pc = "tabled"
           => Classified(get_proposition_type(display_table(table)),
                         FinalColumn(table, 1))
    /\ (pc # "tabled" /\ table # NoTable)
           => Classified(result, FinalColumn(table, 2))

\* a displayed table whose final column is false in each of two or more rows
C6_Witness ==
    /\ pc = "prompt"
    /\ result = Contradiction
    /\ Len(table.rows) > 2

\* the names of the Propositions in a list
Names(props, h) == [k \in 1..Len(props) |-> h[props[k]].name]

\* the matcher's result for a formula that is the first line of a run
FirstRun(formula) == proposition_matcher(formula, <<>>, <<>>, <<>>, <<>>)

\* the table of a formula that is the first line of a run
FirstTable(formula) ==
    LET m == FirstRun(formula)
    IN  get_table(m.simple_props, m.tokens, m.initial_string, m.globals,
                  m.heap)

\* C7: whatever lines came before, the atom list, the token table, the
\* table and the classification of an accepted formula are those of a run
\* in which the formula is the first line.
C7_NoCarryOver ==
    /\ pc \in {"validated", "tabled", "crashed"}
           => /\ FirstRun(initial_string).accepted
              /\ Names(simple_props, heap)
                     = Names(FirstRun(initial_string).simple_props,
                             FirstRun(initial_string).heap)
              /\ tokens = FirstRun(initial_string).tokens
    /\ pc = "validated"
           => \A k \in 1..Len(simple_props) : ~heap[simple_props[k]].value
    /\ pc = "tabled"
           => /\ ~FirstTable(initial_string).raised
              /\ table = FirstTable(initial_string).table
    /\ pc = "crashed" => FirstTable(initial_string).raised
    /\ (pc = "prompt" /\ table # NoTable)
           => /\ table = display_table(FirstTable(initial_string).table)
              /\ result = get_proposition_type(table)

\* a table is displayed for a formula while a letter of an earlier formula
\* is still a global name
C7_Witness ==
    /\ pc = "prompt"
    /\ table # NoTable
    /\ \E e \in DOMAIN globals :
           \A k \in 1..Len(initial_string) : initial_string[k] # e

(***************************************************************************)
(* Properties of the first formula of a run (SpecFirst).                   *)
(***************************************************************************)
\* the atom letters of a formula
Atoms(s) == {s[k] : k \in 1..Len(s)} \cap Lower

\* the first n cells of a row read as a binary number, True = 1, the
\* first cell the most significant bit
RECURSIVE RowNumber(_, _)
RowNumber(row, n) ==
    IF n = 0
    THEN 0
    ELSE 2 * RowNumber(row, n - 1) + (IF row[n] = Cell(TRUE) THEN 1 ELSE 0)

\* C1: for every accepted formula with n atom letters get_table returns
\* 2^n rows after the header, and the atom columns of the rows count down in
\* binary from all true to all false, the first atom the most significant.
C1_RowsDescending ==
    /\ pc # "crashed"
    /\ pc = "tabled"
           => LET n == Cardinality(Atoms(initial_string))
              IN  /\ Len(table.rows) = 2 ^ n
                  /\ \A r \in 1..Len(table.rows) :
                         RowNumber(table.rows[r], n) = 2 ^ n - r

\* the number of binary operators in a formula
BinaryCount(s) == Cardinality({k \in 1..Len(s) : s[k] \in BinaryOps})

\* the value of x op y with the operators of the Proposition class
Connective(op, x, y) ==
    CASE op = "&" -> Prop_and(x, y)
      [] op = "|" -> Prop_or(x, y)
      [] op = "+" -> Prop_add(x, y)
      [] op = ">" -> Prop_gt(x, y)
      [] op = "<" -> Prop_lt(x, y)

\* the operand that starts at p, negations included, and the position
\* after it
RECURSIVE Operand(_, _, _)
Operand(s, p, val) ==
    IF s[p] = "~"
    THEN LET r == Operand(s, p + 1, val)
         IN  [v |-> Prop_invert(r.v), p |-> r.p]
    ELSE [v |-> val[s[p]], p |-> p + 1]

\* ((x op1 y) op2 z) ...: the operators applied one after the other from
\* the left
RECURSIVE LeftFold(_, _, _)
LeftFold(s, acc, val) ==
    IF acc.p > Len(s)
    THEN acc.v
    ELSE LET r == Operand(s, acc.p + 1, val)
         IN  LeftFold(s, [v |-> Connective(s[acc.p], acc.v, r.v), p |-> r.p],
                      val)

LeftAssociative(s, val) == LeftFold(s, Operand(s, 1, val), val)

\* the assignment a row of the table shows
RowAssignment(t, row, s) ==
    [e \in Atoms(s) |->
        \E k \in 1..Len(t.header) :
            t.header[k] = <<e>> /\ t.rows[row][k] = Cell(TRUE)]

\* C3: for an accepted formula without parentheses that chains binary
\* operators, the value in the final column of every row is the value of
\* the operators applied from the left, (x op1 y) op2 z.
C3_LeftAssociative ==
    (pc = "tabled" /\ ~HasParenthesis(initial_string)
                   /\ BinaryCount(initial_string) >= 2)
        => \A r \in 1..Len(table.rows) :
               table.rows[r][Len(table.header)]
                   = Cell(LeftAssociative(initial_string,
                                          RowAssignment(table, r,
                                                        initial_string)))

\* an operand ends at k and the next one starts at k + 1
AdjacentOperands(s) ==
    \E k \in 1..(Len(s) - 1) :
        /\ s[k] \in Lower \cup {")"}
        /\ s[k + 1] \in Lower \cup {"(", "~"}

\* C9: in every accepted formula two consecutive operands are separated by
\* a binary operator.
C9_OperandsSeparated ==
    pc = "validated" => ~AdjacentOperands(initial_string)

\* C10: every atom letter of an accepted formula, the letter i included,
\* resolves during evaluation to the Proposition of that name in
\* simple_props.
C10_LettersResolve ==
    pc = "validated"
        => \A e \in Atoms(initial_string) :
               \E k \in 1..Len(simple_props) :
                   /\ heap[simple_props[k]].name = e
                   /\ ResolveName(e, globals) = simple_props[k]

(***************************************************************************)
(* Properties of the token table (SpecTokens).                             *)
(***************************************************************************)
\* the groups of s as [first, last, height] records in the order of
\* their closing parentheses: open holds, for every "(" read and not yet
\* closed, its position and the height of the highest group inside it
RECURSIVE ScanGroups(_, _, _, _)
ScanGroups(s, p, open, closed) ==
    IF p > Len(s)
    THEN closed
    ELSE IF s[p] = "("
    THEN ScanGroups(s, p + 1, Append(open, [first |-> p, inside |-> 0]), closed)
    ELSE IF s[p] = ")"
    THEN LET top == open[Len(open)]
             rest == SubSeq(open, 1, Len(open) - 1)
             h == top.inside + 1
         IN  ScanGroups(s, p + 1,
                 IF rest = <<>>
                 THEN rest
                 ELSE [rest EXCEPT ![Len(rest)].inside =
                          IF @ < h THEN h ELSE @],
                 Append(closed, [first |-> top.first, last |-> p, height |-> h]))
    ELSE ScanGroups(s, p + 1, open, closed)

\* the groups in the order in which the loop of extract_tokens replaces
\* them, the innermost groups first and each pass from left to right, each
\* with the ~ in front of it
OrderedGroups(s, groups) ==
    [k \in 1..Len(groups) |->
        LET g == CHOOSE g \in {groups[i] : i \in 1..Len(groups)} :
                     Cardinality({i \in 1..Len(groups) :
                         \/ groups[i].height < g.height
                         \/ /\ groups[i].height = g.height
                            /\ groups[i].first < g.first}) = k - 1
        IN  SubSeq(s,
                   IF g.first > 1 /\ s[g.first - 1] = "~"
                   THEN g.first - 1 ELSE g.first,
                   g.last)]

OriginalGroups(s) == OrderedGroups(s, ScanGroups(s, 1, <<>>, <<>>))

\* C2: for every accepted formula and every key k of its token table,
\* decompress_tokens of the text stored under k is the group of the formula
\* that was replaced when k was assigned, whatever the number of groups.
C2_RoundTrip ==
    pc = "validated"
        => \E original \in {OriginalGroups(initial_string)} :
               /\ DOMAIN tokens.tokens = 0..(Len(original) - 1)
               /\ \A k \in DOMAIN tokens.tokens :
                      decompress_tokens(tokens.tokens[k], tokens)
                          = original[k + 1]

\* the positions where a maximal run of digits starts in a text
RunStarts(s) ==
    {p \in 1..Len(s) : s[p] \in Digit /\ (p = 1 \/ s[p - 1] \notin Digit)}

\* the maximal run of digits that starts at p
DigitRun(s, p) ==
    SubSeq(s, p, CHOOSE q \in p..Len(s) :
                     /\ \A j \in p..q : s[j] \in Digit
                     /\ q = Len(s) \/ s[q + 1] \notin Digit)

\* the run is a sequence of keys written in decimal, each smaller than k
RECURSIVE KeysBelow(_, _)
KeysBelow(run, k) ==
    \/ run = <<>>
    \/ \E j \in 0..(k - 1) :
           /\ OccursAt(run, Decimal(j), 1)
           /\ KeysBelow(SubSeq(run, Len(Decimal(j)) + 1, Len(run)), k)

\* C8: the keys of the token table of an accepted formula are 0, 1, 2, ...
\* one per group; every reference in the text stored under key k, whether
\* read as the decimal keys extract_tokens wrote or digit by digit as
\* decompress_tokens reads it, is to a key smaller than k; and
\* decompress_tokens comes to an end on every stored text, with a text
\* that holds no reference.
C8_EarlierKeysOnly ==
    pc = "validated"
        => /\ DOMAIN tokens.tokens = 0..(Groups(initial_string) - 1)
           /\ \A k \in DOMAIN tokens.tokens :
                  /\ \A p \in RunStarts(tokens.tokens[k]) :
                         KeysBelow(DigitRun(tokens.tokens[k], p), k)
                  /\ \A p \in 1..Len(tokens.tokens[k]) :
                         tokens.tokens[k][p] \in Digit
                             => DigitValue(tokens.tokens[k][p]) < k
                  /\ decompress_tokens(tokens.tokens[k], tokens) # KeyError
                  /\ RunStarts(decompress_tokens(tokens.tokens[k], tokens))
                         = {}

\* a stored text refers to key 10, a key of two digits
C8_Witness ==
    /\ pc = "validated"
    /\ \E k \in DOMAIN tokens.tokens :
           \E p \in RunStarts(tokens.tokens[k]) :
               DigitRun(tokens.tokens[k], p) = Decimal(10)

====
